---- MODULE Spec2Model ----
(***************************************************************************)
(* Model of the resumable download engine of src/imagecrawl.py: the        *)
(* Streamlit session state, the persisted session file on Google Drive,    *)
(* the wizard's buttons, the download loop of download_images and the      *)
(* retry loop of download_image.                                           *)
(***************************************************************************)
EXTENDS Integers, Sequences, FiniteSets, TLC

(***************************************************************************)
(* Bounds of the model and program constants.                              *)
(***************************************************************************)
\* Longest URL list handed to the extractor.
MaxIds == 3
\* Cap on the length of the `failed` list: a run starts only while it cannot
\* grow beyond it (the code lets it grow without bound).
MaxFailed == 4
\* Cap on the calls of save_session_state that fail in one behaviour.
MaxSaveErrors == 1
\* download_image(..., retry_count=3, ...)
retry_count == 3

\* The identifiers that URLs may carry.
Ids == {"A", "B"}
\* A URL without the "3:1:" marker.
NoMarker == "nomarker"
\* Candidate URLs: one per identifier, and one without the marker.
Urls == Ids \cup {NoMarker}
\* The naming fields entered at step 2 (town, period, letter code), as one value.
Metas == {"Town_1900_A"}
\* The metadata of a fresh session (all fields empty).
EmptyMeta == ""
\* response.content: the image the server holds for an identifier.
Content(id) == <<"image of", id>>
\* What one attempt of download_image may meet: success, or an exception of
\* requests.get, raise_for_status, Image.open or image.save.
Outcomes == {"ok", "network", "http", "decode", "save"}
\* Python's None, for the path of a failed download.
None == <<>>

VARIABLES
    \* st.session_state
    extracted_ids, completed, failed, metadata, id_position_map, image_data,
    download_started, download_paused, current_step,
    \* the files named GDRIVE_SESSION_STATE_FILENAME in the Drive folder
    persisted,
    \* calls of save_session_state that did not reach Google Drive
    save_errors,
    \* the files written below the temporary output directory
    files,
    \* download_images: position in the function and its locals
    pc, pending_ids, i, successful, failed_local, position,
    \* download_image: loop variable and return value
    attempt, result,
    \* observation of one download_image call: requests.get calls,
    \* time.sleep calls, and whether each attempt succeeded
    gets, sleeps, outcomes,
    \* observation of one run of download_images: identifiers handed to
    \* download_image, `completed` and `failed` at its start, how it ended
    fetched, start_completed, start_failed, run_end,
    \* the archive returned by the last call of create_download_zip
    archive,
    \* a JSON document and the `urls` list that extract_ids_from_urls built
    \* from it
    parsed,
    \* a second Streamlit session on the same Drive folder: its session state
    \* and its run of download_images
    peer

session == <<extracted_ids, completed, failed, metadata, id_position_map,
             image_data, download_started, download_paused, current_step>>
locals == <<pending_ids, i, successful, failed_local, position>>
call == <<attempt, result, gets, sleeps, outcomes>>
observed == <<fetched, start_completed, start_failed, run_end>>
drive == <<persisted, save_errors>>
\* What the actions of the application leave alone.
aside == <<archive, parsed, peer>>
vars == <<session, drive, files, pc, locals, call, observed, aside>>

(***************************************************************************)
(* Helpers on sequences and maps.                                          *)
(***************************************************************************)
Range(s) == {s[k] : k \in 1..Len(s)}

SeqsUpTo(S, n) == UNION {[1..k -> S] : k \in 0..n}

EmptyMap == [x \in {} |-> 0]

\* d[key] = value, as Python's dict assignment.
Put(d, key, value) ==
    [x \in DOMAIN d \cup {key} |-> IF x = key THEN value ELSE d[x]]

(***************************************************************************)
(* extract_ids_from_urls, create_id_position_mapping.                      *)
(***************************************************************************)
\* re.search(r'3:1:([^/]+)', url): a URL without the marker is dropped.
HasMarker(url) == url # NoMarker

ExtractIds(urls) == SelectSeq(urls, HasMarker)

\* {id_value: i+1 for i, id_value in enumerate(ids)}: a later occurrence of a
\* key overwrites the value of an earlier one.
RECURSIVE MappingFrom(_, _)
MappingFrom(ids, k) ==
    IF k = 0 THEN EmptyMap
    ELSE Put(MappingFrom(ids, k - 1), ids[k], k)

\* A mapping that counts positions from 0.
MappingZeroBased(ids) ==
    [id \in DOMAIN MappingFrom(ids, Len(ids)) |-> MappingFrom(ids, Len(ids))[id] - 1]

\* A mapping that leaves out the last identifier of the list.
MappingWithoutLast(ids) ==
    IF ids = <<>> THEN EmptyMap ELSE MappingFrom(ids, Len(ids) - 1)

create_id_position_mapping(ids) == MappingFrom(ids, Len(ids))

(***************************************************************************)
(* save_session_state / load_session_state.                                *)
(***************************************************************************)
\* state_to_save, built from the session state at the time of the call.
Snapshot(ext, comp, fl, meta, map, img, started, step) ==
    [extracted_ids |-> ext,
     download_progress |-> [completed |-> comp, failed |-> fl, metadata |-> meta,
                            id_position_map |-> map, image_data |-> img],
     download_started |-> started,
     current_step |-> step]

\* Whether a call of save_session_state reaches Google Drive: an error of the
\* Drive API is caught inside save_session_state, which then returns False.
SaveOutcomes == IF save_errors < MaxSaveErrors THEN BOOLEAN ELSE {TRUE}

\* A save that always creates a new file.
save_session_state_create(saved, snap) ==
    /\ persisted' = IF ~saved THEN persisted ELSE Append(persisted, snap)
    /\ save_errors' = IF saved THEN save_errors ELSE save_errors + 1

\* A save that keeps the completed pairs of the existing file that the new
\* snapshot lacks.
save_session_state_merge(saved, snap) ==
    /\ persisted' =
        IF ~saved THEN persisted
        ELSE IF Len(persisted) > 0
        THEN LET old == persisted[1].download_progress.completed
                 new == snap.download_progress.completed
             IN <<[snap EXCEPT !.download_progress.completed =
                    new \o SelectSeq(old, LAMBDA pair : pair \notin Range(new))]>>
        ELSE <<snap>>
    /\ save_errors' = IF saved THEN save_errors ELSE save_errors + 1

\* save_session_state: with saved = TRUE the existing file is updated, or one
\* is created when none exists; a failed call leaves the folder as it was.
save_session_state(saved, snap) ==
    /\ persisted' = IF ~saved THEN persisted
                    ELSE IF Len(persisted) > 0
                    THEN [persisted EXCEPT ![1] = snap]
                    ELSE <<snap>>
    /\ save_errors' = IF saved THEN save_errors ELSE save_errors + 1

(***************************************************************************)
(* download_image: names, and the retry policy.                            *)
(***************************************************************************)
\* f"{town_name}_{date_period}_{letter_code}_{index:03d}.jpg"
new_filename(meta, index) == <<meta, index>>

\* os.path.join(output_dir, new_filename); output_dir is named after the metadata.
new_path(meta, index) == <<"tmp", meta, new_filename(meta, index)>>

\* A retry policy that stops sleeping one attempt early.
SleepsAfterEarly(att) == att < retry_count - 2

\* A retry policy that sleeps after every failed attempt, the last included.
SleepsAfterEvery(att) == att < retry_count

\* if attempt < retry_count - 1: ... time.sleep(retry_delay)
SleepsAfter(att) == att < retry_count - 1

(***************************************************************************)
(* download_images: the pending list.                                      *)
(***************************************************************************)
\* completed_ids = [item[0] for item in completed]
CompletedIds(comp) == {comp[k][1] : k \in 1..Len(comp)}

\* A pending list that also leaves out the identifiers in `failed`.
PendingIdsSkipFailed(ids, comp) ==
    SelectSeq(ids, LAMBDA id : id \notin CompletedIds(comp) /\ id \notin Range(failed))

\* pending_ids = [id for id in ids if id not in completed_ids]
PendingIds(ids, comp) ==
    SelectSeq(ids, LAMBDA id : id \notin CompletedIds(comp))

\* Identifiers for which this run has already created the widget
\* st.download_button(key=f"dl_btn_{image_id}").
ButtonKeys(succ, start) ==
    {succ[k][1] : k \in (Len(start) + 1)..Len(succ)}

\* No archive has been built.
NoArchive == [built |-> FALSE, completed_only |-> FALSE, entries |-> <<>>]

\* No second session has been opened.
NoPeer == [open |-> FALSE, mem |-> <<>>, running |-> FALSE,
           pending_ids |-> <<>>, i |-> 0]

\* No JSON document has been handed to extract_ids_from_urls.
NoParsed == [done |-> FALSE, data |-> <<"list", <<>>>>, urls |-> <<>>]

(***************************************************************************)
(* Initial state: the defaults of a first start without a saved session.   *)
(***************************************************************************)
Init ==
    /\ extracted_ids = <<>>
    /\ completed = <<>>
    /\ failed = <<>>
    /\ metadata = EmptyMeta
    /\ id_position_map = EmptyMap
    /\ image_data = EmptyMap
    /\ download_started = FALSE
    /\ download_paused = FALSE
    /\ current_step = 1
    /\ persisted = <<>>
    /\ save_errors = 0
    /\ files = EmptyMap
    /\ pc = "idle"
    /\ pending_ids = <<>>
    /\ i = 0
    /\ successful = <<>>
    /\ failed_local = <<>>
    /\ position = 0
    /\ attempt = 0
    /\ result = [success |-> FALSE, path |-> None]
    /\ gets = 0
    /\ sleeps = 0
    /\ outcomes = <<>>
    /\ fetched = <<>>
    /\ start_completed = <<>>
    /\ start_failed = <<>>
    /\ run_end = "none"
    /\ archive = NoArchive
    /\ parsed = NoParsed
    /\ peer = NoPeer

\* The locals of download_images and download_image are gone once the script
\* run that called them is over.
NoLocals ==
    /\ pending_ids' = <<>>
    /\ i' = 0
    /\ successful' = <<>>
    /\ failed_local' = <<>>
    /\ position' = 0

NoCall ==
    /\ attempt' = 0
    /\ result' = [success |-> FALSE, path |-> None]
    /\ gets' = 0
    /\ sleeps' = 0
    /\ outcomes' = <<>>

NoRun ==
    /\ fetched' = <<>>
    /\ start_completed' = <<>>
    /\ start_failed' = <<>>
    /\ run_end' = "none"

(***************************************************************************)
(* The wizard: steps 1 and 2.                                              *)
(***************************************************************************)
\* handle_extract_ids_button: the callback of "Extract IDs". The content is
\* given as the list of candidate URLs found in it; no content is an error.
\* The session is saved before the step is advanced.
ExtractFrom(urls) ==
    /\ UNCHANGED aside
    /\ pc = "idle"
    /\ current_step = 1
    /\ \E saved \in SaveOutcomes :
        IF urls = <<>>
        THEN UNCHANGED <<session, drive>>
        ELSE LET ids == ExtractIds(urls)
                 map == create_id_position_mapping(ids)
             IN /\ extracted_ids' = ids
                /\ id_position_map' = map
                /\ save_session_state(saved, Snapshot(ids, completed, failed,
                                    metadata, map, image_data,
                                    download_started, current_step))
                /\ current_step' = 2
                /\ UNCHANGED <<completed, failed, metadata, image_data,
                               download_started, download_paused>>
    /\ pc' = pc
    /\ UNCHANGED files
    /\ NoLocals /\ NoCall /\ NoRun

handle_extract_ids_button ==
    \E urls \in SeqsUpTo(Urls, MaxIds) : ExtractFrom(urls)

\* main, step 2, "Start Download": the metadata is stored and the session
\* saved, then the wizard moves to step 3 with download_started set.
StartDownload ==
    /\ UNCHANGED aside
    /\ pc = "idle"
    /\ current_step = 2
    /\ \E meta \in Metas, saved \in SaveOutcomes :
        /\ metadata' = meta
        /\ save_session_state(saved, Snapshot(extracted_ids, completed, failed,
                            meta, id_position_map, image_data,
                            download_started, current_step))
    /\ current_step' = 3
    /\ download_started' = TRUE
    /\ pc' = pc
    /\ UNCHANGED <<extracted_ids, completed, failed, id_position_map,
                   image_data, download_paused, files>>
    /\ NoLocals /\ NoCall /\ NoRun

\* main, step 2, "Back to Step 1".
BackToStep1 ==
    /\ UNCHANGED aside
    /\ pc = "idle"
    /\ current_step = 2
    /\ current_step' = 1
    /\ \E saved \in SaveOutcomes :
        save_session_state(saved, Snapshot(extracted_ids, completed, failed,
                            metadata, id_position_map, image_data,
                            download_started, 1))
    /\ pc' = pc
    /\ UNCHANGED <<extracted_ids, completed, failed, metadata, id_position_map,
                   image_data, download_started, download_paused, files>>
    /\ NoLocals /\ NoCall /\ NoRun

(***************************************************************************)
(* Step 3: resume, retry failed, start new.                                *)
(***************************************************************************)
\* main, step 3, "Resume Downloads", shown while the pause flag is set.
ResumeDownloads ==
    /\ UNCHANGED aside
    /\ pc = "idle"
    /\ current_step = 3
    /\ download_paused
    /\ download_paused' = FALSE
    /\ pc' = pc
    /\ UNCHANGED <<extracted_ids, completed, failed, metadata, id_position_map,
                   image_data, download_started, current_step, drive, files>>
    /\ NoLocals /\ NoCall /\ NoRun

\* retry_failed_downloads, called by "Retry Failed Downloads", which main
\* shows at step 3 while `failed` is not empty.
retry_failed_downloads ==
    /\ UNCHANGED aside
    /\ pc = "idle"
    /\ current_step = 3
    /\ Len(failed) > 0
    /\ IF failed = <<>>
       THEN UNCHANGED <<failed, drive>>
       ELSE /\ failed' = <<>>
            /\ \E saved \in SaveOutcomes :
                save_session_state(saved, Snapshot(extracted_ids, completed,
                                    <<>>, metadata, id_position_map, image_data,
                                    download_started, current_step))
    /\ pc' = pc
    /\ UNCHANGED <<extracted_ids, completed, metadata, id_position_map,
                   image_data, download_started, download_paused, current_step,
                   files>>
    /\ NoLocals /\ NoCall /\ NoRun

\* A reset that removes the saved session file.
StartNewDownloadDeletes ==
    /\ UNCHANGED aside
    /\ pc = "idle"
    /\ current_step = 3
    /\ extracted_ids' = <<>>
    /\ completed' = <<>>
    /\ failed' = <<>>
    /\ metadata' = EmptyMeta
    /\ id_position_map' = EmptyMap
    /\ image_data' = EmptyMap
    /\ download_started' = FALSE
    /\ download_paused' = FALSE
    /\ current_step' = 1
    /\ files' = EmptyMap
    /\ persisted' = <<>>
    /\ UNCHANGED save_errors
    /\ pc' = pc
    /\ NoLocals /\ NoCall /\ NoRun

\* A reset that keeps the retrieved images.
StartNewDownloadKeepsImages ==
    /\ UNCHANGED aside
    /\ pc = "idle"
    /\ current_step = 3
    /\ extracted_ids' = <<>>
    /\ completed' = <<>>
    /\ failed' = <<>>
    /\ metadata' = EmptyMeta
    /\ id_position_map' = EmptyMap
    /\ image_data' = image_data
    /\ download_started' = FALSE
    /\ download_paused' = FALSE
    /\ current_step' = 1
    /\ files' = EmptyMap
    /\ \E saved \in SaveOutcomes :
        save_session_state(saved, Snapshot(<<>>, <<>>, <<>>, EmptyMeta, EmptyMap,
                            image_data, FALSE, 1))
    /\ pc' = pc
    /\ NoLocals /\ NoCall /\ NoRun

\* main, step 3, "Start New Download": the session is reset, the temporary
\* directory removed and a new one created, and the empty session saved.
StartNewDownload ==
    /\ UNCHANGED aside
    /\ pc = "idle"
    /\ current_step = 3
    /\ extracted_ids' = <<>>
    /\ completed' = <<>>
    /\ failed' = <<>>
    /\ metadata' = EmptyMeta
    /\ id_position_map' = EmptyMap
    /\ image_data' = EmptyMap
    /\ download_started' = FALSE
    /\ download_paused' = FALSE
    /\ current_step' = 1
    /\ files' = EmptyMap
    /\ \E saved \in SaveOutcomes :
        save_session_state(saved, Snapshot(<<>>, <<>>, <<>>, EmptyMeta, EmptyMap,
                            EmptyMap, FALSE, 1))
    /\ pc' = pc
    /\ NoLocals /\ NoCall /\ NoRun

(***************************************************************************)
(* Process start: load_session_state, else the defaults.                   *)
(***************************************************************************)
\* The process is stopped (at any point) and started again: the session is
\* what the saved file holds, or the defaults when there is none; the pause
\* flag is not saved, and main sets it to False; the new process has a new
\* temporary directory.
\* A process start that finds the pause flag as it was left.
RestartKeepsPause ==
    /\ UNCHANGED aside
    /\ IF Len(persisted) > 0
       THEN LET s == persisted[1]
            IN /\ extracted_ids' = s.extracted_ids
               /\ completed' = s.download_progress.completed
               /\ failed' = s.download_progress.failed
               /\ metadata' = s.download_progress.metadata
               /\ id_position_map' = s.download_progress.id_position_map
               /\ image_data' = s.download_progress.image_data
               /\ download_started' = s.download_started
               /\ current_step' = s.current_step
       ELSE /\ extracted_ids' = <<>>
            /\ completed' = <<>>
            /\ failed' = <<>>
            /\ metadata' = EmptyMeta
            /\ id_position_map' = EmptyMap
            /\ image_data' = EmptyMap
            /\ download_started' = FALSE
            /\ current_step' = 1
    /\ download_paused' = download_paused
    /\ files' = EmptyMap
    /\ pc' = "idle"
    /\ UNCHANGED drive
    /\ NoLocals /\ NoCall /\ NoRun

Restart ==
    /\ UNCHANGED aside
    /\ IF Len(persisted) > 0
       THEN LET s == persisted[1]
            IN /\ extracted_ids' = s.extracted_ids
               /\ completed' = s.download_progress.completed
               /\ failed' = s.download_progress.failed
               /\ metadata' = s.download_progress.metadata
               /\ id_position_map' = s.download_progress.id_position_map
               /\ image_data' = s.download_progress.image_data
               /\ download_started' = s.download_started
               /\ current_step' = s.current_step
       ELSE /\ extracted_ids' = <<>>
            /\ completed' = <<>>
            /\ failed' = <<>>
            /\ metadata' = EmptyMeta
            /\ id_position_map' = EmptyMap
            /\ image_data' = EmptyMap
            /\ download_started' = FALSE
            /\ current_step' = 1
    /\ download_paused' = FALSE
    /\ files' = EmptyMap
    /\ pc' = "idle"
    /\ UNCHANGED drive
    /\ NoLocals /\ NoCall /\ NoRun

(***************************************************************************)
(* download_images: entry.                                                 *)
(***************************************************************************)
\* main calls download_images in every script run at step 3 with
\* download_started set and the pause flag clear.
CanRun ==
    /\ pc = "idle"
    /\ current_step = 3
    /\ download_started
    /\ ~download_paused
    /\ Len(failed) + Len(PendingIds(extracted_ids, completed)) <= MaxFailed

\* download_images up to the loop: the pending list, "All images already
\* downloaded!" when it is empty, no loop when the pause flag is set, else
\* the copies `successful` and `failed`.
download_images_begin ==
    /\ UNCHANGED aside
    /\ CanRun
    /\ LET pending == PendingIds(extracted_ids, completed)
       IN /\ fetched' = <<>>
          /\ start_completed' = completed
          /\ start_failed' = failed
          /\ IF Len(pending) = 0 \/ download_paused
             THEN /\ pc' = "idle"
                  /\ run_end' = IF Len(pending) = 0 THEN "all_done" ELSE "paused"
                  /\ NoLocals
             ELSE /\ pc' = "loop"
                  /\ run_end' = "running"
                  /\ pending_ids' = pending
                  /\ i' = 0
                  /\ successful' = completed
                  /\ failed_local' = failed
                  /\ position' = 0
    /\ NoCall
    /\ UNCHANGED <<session, drive, files>>

\* download_images in the script run of a click on "Pause Downloads": the
\* flag is set, the session saved and the script rerun before the loop.
PauseAtEntry ==
    /\ UNCHANGED aside
    /\ CanRun
    /\ Len(PendingIds(extracted_ids, completed)) > 0
    /\ download_paused' = TRUE
    /\ \E saved \in SaveOutcomes :
        save_session_state(saved, Snapshot(extracted_ids, completed, failed,
                            metadata, id_position_map, image_data,
                            download_started, current_step))
    /\ pc' = "idle"
    /\ fetched' = <<>>
    /\ start_completed' = completed
    /\ start_failed' = failed
    /\ run_end' = "paused"
    /\ NoLocals /\ NoCall
    /\ UNCHANGED <<extracted_ids, completed, failed, metadata, id_position_map,
                   image_data, download_started, current_step, files>>

\* The same click while the loop is suspended in a sleep, between two items
\* or between two attempts: the flag is set and the session saved; the loop
\* sees the flag at its next item boundary.
PauseDuringRun ==
    /\ UNCHANGED aside
    /\ pc \in {"loop", "attempt"}
    /\ ~download_paused
    /\ download_paused' = TRUE
    /\ \E saved \in SaveOutcomes :
        save_session_state(saved, Snapshot(extracted_ids, completed, failed,
                            metadata, id_position_map, image_data,
                            download_started, current_step))
    /\ UNCHANGED <<extracted_ids, completed, failed, metadata, id_position_map,
                   image_data, download_started, current_step, files, pc,
                   locals, call, observed>>

(***************************************************************************)
(* download_images: the loop.                                              *)
(***************************************************************************)
\* A position that is always the loop index + 1.
PositionByLoopIndex(map, id, idx) == idx + 1

\* position = id_position_map.get(image_id, i+1)
PositionOf(map, id, idx) == IF id \in DOMAIN map THEN map[id] ELSE idx + 1

\* A loop that, once over, asks for "Start Download" again.
LoopEndStops ==
    /\ pc' = "idle"
    /\ run_end' = IF download_paused THEN "paused" ELSE "complete"
    /\ download_started' = FALSE
    /\ NoLocals /\ NoCall
    /\ UNCHANGED <<extracted_ids, completed, failed, metadata, id_position_map,
                   image_data, download_paused, current_step, drive, fetched>>

\* The loop is over: "Download session complete!" unless the pause flag is
\* set, then the summary of the `finally` block.
LoopEnd ==
    /\ pc' = "idle"
    /\ run_end' = IF download_paused THEN "paused" ELSE "complete"
    /\ NoLocals /\ NoCall
    /\ UNCHANGED <<session, drive, fetched>>

\* if st.session_state.download_paused: ... save_download_progress(); break
LoopPaused ==
    /\ \E saved \in SaveOutcomes :
        save_session_state(saved, Snapshot(extracted_ids, completed, failed,
                            metadata, id_position_map, image_data,
                            download_started, current_step))
    /\ pc' = "idle"
    /\ run_end' = "paused"
    /\ NoLocals /\ NoCall
    /\ UNCHANGED <<session, fetched>>

\* The position is looked up and download_image called.
LoopFetch ==
    /\ position' = PositionOf(id_position_map, pending_ids[i + 1], i)
    /\ fetched' = Append(fetched, pending_ids[i + 1])
    /\ pc' = "attempt"
    /\ NoCall
    /\ UNCHANGED <<session, drive, pending_ids, i, successful, failed_local,
                   run_end>>

\* The loop without its check of the pause flag.
LoopTopNoPauseCheck ==
    /\ UNCHANGED aside
    /\ pc = "loop"
    /\ IF i >= Len(pending_ids) THEN LoopEnd ELSE LoopFetch
    /\ UNCHANGED <<files, start_completed, start_failed>>

\* The top of the loop, an item boundary: the loop is over, or the pause flag
\* is set (the session is saved and the loop left), or download_image is
\* called for the next pending identifier.
LoopTop ==
    /\ UNCHANGED aside
    /\ pc = "loop"
    /\ IF i >= Len(pending_ids) THEN LoopEnd
       ELSE IF download_paused THEN LoopPaused
       ELSE LoopFetch
    /\ UNCHANGED <<files, start_completed, start_failed>>

\* A download that does not keep the bytes.
StoreImageNot(img, id, filename, data) == img

\* A download that replaces the whole store by the new entry.
StoreImageOnly(img, id, filename, data) ==
    Put(EmptyMap, id, [filename |-> filename, data |-> data])

\* st.session_state.download_progress["image_data"][image_id] = {...}
StoreImage(img, id, filename, data) ==
    Put(img, id, [filename |-> filename, data |-> data])

\* One pass of `for attempt in range(retry_count)` in download_image. A
\* successful attempt saves the file, stores the bytes and returns
\* (True, new_path). A failing one is caught; it sleeps and goes round again,
\* or, as the last one, ends the loop, and (False, None) is returned.
Attempt ==
    /\ UNCHANGED aside
    /\ pc = "attempt"
    /\ \E outcome \in Outcomes :
        LET id == pending_ids[i + 1]
            data == Content(id)
            filename == new_filename(metadata, position)
            path == new_path(metadata, position)
        IN /\ gets' = gets + 1
           /\ outcomes' = Append(outcomes, outcome = "ok")
           /\ IF outcome = "ok"
              THEN /\ files' = Put(files, path, data)
                   /\ image_data' = StoreImage(image_data, id, filename, data)
                   /\ result' = [success |-> TRUE, path |-> path]
                   /\ pc' = "record"
                   /\ UNCHANGED <<attempt, sleeps>>
              ELSE /\ sleeps' = IF SleepsAfter(attempt) THEN sleeps + 1 ELSE sleeps
                   /\ attempt' = attempt + 1
                   /\ IF attempt + 1 < retry_count
                      THEN UNCHANGED <<pc, result>>
                      ELSE /\ result' = [success |-> FALSE, path |-> None]
                           /\ pc' = "record"
                   /\ UNCHANGED <<files, image_data>>
    /\ UNCHANGED <<extracted_ids, completed, failed, metadata, id_position_map,
                   download_started, download_paused, current_step, drive,
                   locals, observed>>

\* A loop that does not note a downloaded item.
RecordCompletedNot(succ, id, path) == succ

\* successful.append((image_id, path))
RecordCompleted(succ, id, path) == Append(succ, <<id, path>>)

\* A loop that does not note a failed item.
RecordFailedNot(fl, id) == fl

\* failed.append(image_id)
RecordFailed(fl, id) == Append(fl, id)

\* The rest of the loop body after download_image has returned: the outcome
\* is recorded in `completed` or in `failed`, the session saved, and the loop
\* goes to its next item. After a success the item's download button is
\* created first: Streamlit raises DuplicateWidgetID for a key already used
\* in this script run, which the loop's `except Exception` catches; the run
\* ends there, without the save.
Record ==
    /\ UNCHANGED aside
    /\ pc = "record"
    /\ LET id == pending_ids[i + 1]
       IN IF result.success
          THEN /\ successful' = RecordCompleted(successful, id, result.path)
               /\ completed' = successful'
               /\ UNCHANGED <<failed, failed_local>>
               /\ IF id \in ButtonKeys(successful, start_completed)
                  THEN /\ pc' = "idle"
                       /\ run_end' = "raised"
                       /\ UNCHANGED drive
                  ELSE /\ pc' = "loop"
                       /\ UNCHANGED run_end
                       /\ \E saved \in SaveOutcomes :
                            save_session_state(saved, Snapshot(extracted_ids,
                                completed', failed, metadata, id_position_map,
                                image_data, download_started, current_step))
          ELSE /\ failed_local' = RecordFailed(failed_local, id)
               /\ failed' = failed_local'
               /\ UNCHANGED <<completed, successful>>
               /\ pc' = "loop"
               /\ UNCHANGED run_end
               /\ \E saved \in SaveOutcomes :
                    save_session_state(saved, Snapshot(extracted_ids, completed,
                        failed', metadata, id_position_map, image_data,
                        download_started, current_step))
    /\ IF pc' = "loop"
       THEN /\ i' = i + 1
            /\ UNCHANGED <<pending_ids, position>>
       ELSE /\ pending_ids' = <<>>
            /\ i' = 0
            /\ position' = 0
    /\ NoCall
    /\ UNCHANGED <<extracted_ids, metadata, id_position_map, image_data,
                   download_started, download_paused, current_step, files,
                   fetched, start_completed, start_failed>>

(***************************************************************************)
(* The specification.                                                      *)
(***************************************************************************)
Next ==
    \/ handle_extract_ids_button
    \/ StartDownload
    \/ BackToStep1
    \/ ResumeDownloads
    \/ retry_failed_downloads
    \/ StartNewDownload
    \/ Restart
    \/ download_images_begin
    \/ PauseAtEntry
    \/ PauseDuringRun
    \/ LoopTop
    \/ Attempt
    \/ Record

Spec == Init /\ [][Next]_vars

TypeOK ==
    /\ extracted_ids \in SeqsUpTo(Ids, MaxIds)
    /\ pc \in {"idle", "loop", "attempt", "record"}
    /\ Len(persisted) <= 1
    /\ Len(failed) <= MaxFailed
    /\ attempt \in 0..retry_count

(***************************************************************************)
(* Properties.                                                             *)
(***************************************************************************)
\* An item boundary: no run is under way, or the loop is at its top.
ItemBoundary == pc \in {"idle", "loop"}

\* C1: at every item boundary no identifier is both the identifier of a pair
\* in `completed` and a member of `failed`.
C1_CompletedFailedDisjoint ==
    ItemBoundary => CompletedIds(completed) \cap Range(failed) = {}

\* The identifiers of the extracted sequence that, at the start of the run,
\* were neither completed nor failed, in extraction order.
Untouched ==
    SelectSeq(extracted_ids,
              LAMBDA id : /\ id \notin CompletedIds(start_completed)
                          /\ id \notin Range(start_failed))

\* C2: a run fetches only identifiers that were neither completed nor failed
\* at its start, a run that went through its whole loop has fetched exactly
\* those, and `failed` is what it was at the start of the run followed by
\* identifiers the run has fetched.
C2_ResumeFetchesUntouched ==
    /\ Range(fetched) \subseteq Range(Untouched)
    /\ run_end = "complete" => fetched = Untouched
    /\ run_end \in {"running", "complete", "paused"}
       => /\ Len(failed) >= Len(start_failed)
          /\ SubSeq(failed, 1, Len(start_failed)) = start_failed
          /\ \A k \in (Len(start_failed) + 1)..Len(failed) :
                failed[k] \in Range(fetched)

\* C3: a run that was not paused and raised nothing has handed to
\* download_image the extracted sequence without the identifiers completed at
\* its start, in extraction order.
C3_FetchedInExtractionOrder ==
    run_end = "complete" =>
        fetched = SelectSeq(extracted_ids,
                            LAMBDA id : id \notin CompletedIds(start_completed))

C3_Witness ==
    /\ run_end = "complete"
    /\ start_completed # <<>>
    /\ start_failed # <<>>
    /\ Len(fetched) >= 2

\* C4: at every item boundary every identifier in `completed` has an entry in
\* image_data.
C4_CompletedHaveImageData ==
    ItemBoundary => CompletedIds(completed) \subseteq DOMAIN image_data

C4_Witness ==
    /\ pc = "loop"
    /\ i >= 2
    /\ Len(completed) > Len(start_completed)
    /\ Cardinality(CompletedIds(completed)) >= 2

\* The outcome of the item whose download_image call has returned is
\* recorded by this step: one pair more in `completed`, or the identifier
\* appended to `failed`, and nothing else in either.
RecordedOnce ==
    LET id == pending_ids[i + 1]
    IN \/ /\ result.success
          /\ completed' = Append(completed, <<id, result.path>>)
          /\ failed' = failed
       \/ /\ ~result.success
          /\ failed' = Append(failed, id)
          /\ completed' = completed

\* C5: an iteration that has called download_image reaches the next pause
\* check, or the end of the run by an exception, only through the step that
\* records the item's outcome exactly once.
C5_OutcomeRecordedOnce ==
    [][(/\ pc \in {"attempt", "record"}
        /\ pc' = "loop" \/ run_end' = "raised")
       => (pc = "record" /\ RecordedOnce)]_vars

C5_Witness ==
    /\ pc = "loop"
    /\ i >= 2
    /\ Len(completed) > Len(start_completed)
    /\ Len(failed) > Len(start_failed)

\* C6: download_image is called only with the pause flag clear; with the flag
\* set at an item boundary the loop saves the session and ends the run with
\* no further fetch and with `completed`, `failed` and image_data as they
\* were; with the flag set no run begins.
C6_NoFetchWhilePaused ==
    [][/\ Len(fetched') > Len(fetched) => (pc = "loop" /\ ~download_paused)
       /\ (/\ pc = "loop"
           /\ download_paused
           /\ i < Len(pending_ids)
           /\ run_end' # "none")
          => /\ pc' = "idle"
             /\ run_end' = "paused"
             /\ fetched' = fetched
             /\ UNCHANGED <<completed, failed, image_data>>
             /\ save_errors' = save_errors =>
                  persisted' = <<Snapshot(extracted_ids, completed, failed,
                                  metadata, id_position_map, image_data,
                                  download_started, current_step)>>
       /\ (pc = "idle" /\ download_paused) => pc' = "idle"]_vars

C6_Witness ==
    /\ pc = "idle"
    /\ run_end = "paused"
    /\ Len(fetched) >= 1
    /\ Len(fetched) < Len(SelectSeq(extracted_ids,
                            LAMBDA id : id \notin CompletedIds(start_completed)))
    /\ completed # start_completed

\* C7: retry_failed_downloads empties `failed`, leaves `completed`,
\* image_data, the extracted sequence and the position index as they were,
\* starts no fetch, and every identifier that was in `failed` is in the
\* pending list the next run computes.
C7_RetryFailedRequeues ==
    [][retry_failed_downloads
       => /\ failed' = <<>>
          /\ UNCHANGED <<completed, image_data, extracted_ids, id_position_map>>
          /\ pc' = "idle"
          /\ fetched' = <<>>
          /\ Range(failed) \subseteq
                Range(SelectSeq(extracted_ids',
                        LAMBDA id : id \notin CompletedIds(completed')))]_vars

\* C8: when the attempts before the k-th fail and the k-th succeeds,
\* download_image returns success after k requests and k - 1 sleeps, and no
\* attempt follows a successful one.
C8_SuccessAfterRetries ==
    (outcomes # <<>> /\ outcomes[Len(outcomes)])
    => /\ pc = "record"
       /\ result.success
       /\ result.path # None
       /\ Len(outcomes) <= retry_count
       /\ \A j \in 1..(Len(outcomes) - 1) : ~outcomes[j]
       /\ gets = Len(outcomes)
       /\ sleeps = Len(outcomes) - 1

C8_Witness ==
    /\ pc = "record"
    /\ result.success
    /\ outcomes = <<FALSE, FALSE, TRUE>>
    /\ sleeps = 2

\* C9: when all retry_count attempts fail, download_image has made exactly
\* retry_count requests and retry_count - 1 sleeps and returns (False, None);
\* its result is (True, path) or (False, None); and no exception leaves it
\* for the loop's handler.
C9_FailureAfterAllAttempts ==
    /\ [](/\ gets <= retry_count
          /\ (Len(outcomes) = retry_count /\ \A j \in 1..Len(outcomes) : ~outcomes[j])
             => /\ pc = "record"
                /\ result = [success |-> FALSE, path |-> None]
                /\ gets = retry_count
                /\ sleeps = retry_count - 1
          /\ pc = "record"
             => \/ result.success /\ result.path # None
                \/ ~result.success /\ result.path = None)
    /\ [][pc = "attempt" => run_end' # "raised"]_vars

C9_Witness ==
    /\ pc = "record"
    /\ ~result.success
    /\ gets = retry_count
    /\ sleeps = retry_count - 1

\* C10: a download_image call that succeeds writes one image_data entry, that
\* of the fetched identifier, and leaves every other entry as it was; failed
\* attempts, and so a call that fails, leave image_data as it was.
C10_OneEntryWritten ==
    [][/\ (pc = "attempt" /\ pc' = "record" /\ result'.success)
          => LET id == pending_ids[i + 1]
             IN /\ DOMAIN image_data' = DOMAIN image_data \cup {id}
                /\ \A x \in DOMAIN image_data \ {id} : image_data'[x] = image_data[x]
                /\ image_data'[id] = [filename |-> new_filename(metadata, position),
                                      data |-> Content(id)]
       /\ (/\ pc = "attempt"
           /\ pc' = "attempt" \/ (pc' = "record" /\ ~result'.success))
          => image_data' = image_data]_vars

C10_Witness ==
    /\ pc = "record"
    /\ result.success
    /\ gets >= 2
    /\ Cardinality(DOMAIN image_data) >= 2

\* C11: at every item boundary every identifier with an entry in image_data
\* is the identifier of a pair in `completed`.
C11_ImageDataAreCompleted ==
    ItemBoundary => DOMAIN image_data \subseteq CompletedIds(completed)

C11_Witness ==
    /\ pc = "loop"
    /\ i >= 1
    /\ Cardinality(DOMAIN image_data) >= 2
    /\ Len(failed) > Len(start_failed)

\* C12: a successful download never writes the image_data entry of an
\* identifier that already has one.
C12_EntryWrittenOnce ==
    [][(pc = "attempt" /\ pc' = "record" /\ result'.success)
       => pending_ids[i + 1] \notin DOMAIN image_data]_vars

\* An extraction has just stored its identifiers and their position index.
Extracted == current_step = 1 /\ current_step' = 2

\* C13: the position index made from N extracted identifiers has at most N
\* entries, its keys are exactly the extracted identifiers, and its values lie
\* in 1..N.
C13_MappingShape ==
    [][Extracted
       => LET N == Len(extracted_ids')
          IN /\ Cardinality(DOMAIN id_position_map') <= N
             /\ DOMAIN id_position_map' = Range(extracted_ids')
             /\ \A id \in DOMAIN id_position_map' : id_position_map'[id] \in 1..N]_vars

C13_Witness ==
    /\ current_step = 2
    /\ Len(extracted_ids) = 3
    /\ Cardinality(DOMAIN id_position_map) = 2

\* The 1-based index of the first occurrence of id in ids.
FirstIndex(ids, id) ==
    CHOOSE k \in 1..Len(ids) :
        ids[k] = id /\ \A j \in 1..(k - 1) : ids[j] # id

\* C14: the position index maps every extracted identifier to 1 + the index
\* of its first occurrence in the extracted sequence.
C14_FirstOccurrence ==
    \A id \in DOMAIN id_position_map \cap Range(extracted_ids) :
        id_position_map[id] = FirstIndex(extracted_ids, id)

\* C18: within one process, download_started goes from true to false only
\* in a step of "Start New Download".
C18_OnlyResetStops ==
    [][(download_started /\ ~download_started' /\ ~Restart)
       => StartNewDownload]_vars

C18_Witness ==
    /\ pc = "idle"
    /\ download_started
    /\ run_end = "raised"
    /\ failed # <<>>

\* C19: the folder never holds more than one session file: a save creates a
\* file only when there is none, and updates the one there is otherwise.
C19_OneSessionFile ==
    /\ [](Len(persisted) <= 1)
    /\ [][persisted' # persisted
          => Len(persisted') = (IF Len(persisted) = 0 THEN 1 ELSE Len(persisted))]_vars

C19_Witness ==
    /\ Len(persisted) = 1
    /\ save_errors = 0
    /\ persisted[1].download_progress.completed # <<>>
    /\ persisted[1].download_progress.failed # <<>>

\* C16: an extraction from input that yields no identifier, empty or not,
\* leaves the extracted sequence, the position index and the step as they
\* were.
C16_NoIdsNoChange ==
    [][\A urls \in SeqsUpTo(Urls, MaxIds) :
        (ExtractFrom(urls) /\ ExtractIds(urls) = <<>>)
        => UNCHANGED <<extracted_ids, id_position_map, current_step>>]_vars

(***************************************************************************)
(* create_download_zip, as a function of `completed` and image_data.       *)
(***************************************************************************)
\* Longest `completed` list handed to create_download_zip.
MaxZip == 2
\* Stored filenames and stored bytes of the image_data entries handed to it.
ZipNames == {"a.jpg", "b.jpg"}
ZipBytes == {"bytes1", "bytes2"}
\* Local paths of the completed pairs handed to it.
ZipPaths == {"tmp/x.jpg"}

\* An archive entry named after the local path of the completed pair.
ZipEntryByPath(pair, img) == <<pair[2], img[pair[1]].data>>

\* zipf.writestr(filename, data), with the stored filename and bytes.
ZipEntry(pair, img) == <<img[pair[1]].filename, img[pair[1]].data>>

\* for image_id, _ in completed: if image_id in image_data: zipf.writestr(...)
RECURSIVE ZipEntries(_, _, _)
ZipEntries(comp, img, k) ==
    IF k = 0 THEN <<>>
    ELSE LET before == ZipEntries(comp, img, k - 1)
         IN IF comp[k][1] \in DOMAIN img
            THEN Append(before, ZipEntry(comp[k], img))
            ELSE before

\* A packager that writes the completed images whatever the filter.
create_download_zip_unfiltered(include_completed_only) ==
    ZipEntries(completed, image_data, Len(completed))

\* create_download_zip(include_completed_only): the entries of the archive,
\* in the order written; nothing is written without the filter.
create_download_zip(include_completed_only) ==
    IF include_completed_only
    THEN ZipEntries(completed, image_data, Len(completed))
    ELSE <<>>

\* A call of create_download_zip, with or without the filter.
CallCreateDownloadZip ==
    /\ \E flag \in BOOLEAN :
        archive' = [built |-> TRUE, completed_only |-> flag,
                    entries |-> create_download_zip(flag)]
    /\ UNCHANGED <<session, drive, files, pc, locals, call, observed, parsed,
                   peer>>

\* Every `completed` list and image_data map within the bounds.
ZipInit ==
    /\ completed \in SeqsUpTo(Ids \X ZipPaths, MaxZip)
    /\ \E keys \in SUBSET Ids :
        image_data \in [keys -> [filename : ZipNames, data : ZipBytes]]
    /\ extracted_ids = <<>>
    /\ failed = <<>>
    /\ metadata = EmptyMeta
    /\ id_position_map = EmptyMap
    /\ download_started = FALSE
    /\ download_paused = FALSE
    /\ current_step = 3
    /\ persisted = <<>>
    /\ save_errors = 0
    /\ files = EmptyMap
    /\ pc = "idle"
    /\ pending_ids = <<>>
    /\ i = 0
    /\ successful = <<>>
    /\ failed_local = <<>>
    /\ position = 0
    /\ attempt = 0
    /\ result = [success |-> FALSE, path |-> None]
    /\ gets = 0
    /\ sleeps = 0
    /\ outcomes = <<>>
    /\ fetched = <<>>
    /\ start_completed = <<>>
    /\ start_failed = <<>>
    /\ run_end = "none"
    /\ archive = NoArchive
    /\ parsed = NoParsed
    /\ peer = NoPeer

ZipNext == CallCreateDownloadZip

ZipSpec == ZipInit /\ [][ZipNext]_vars

\* The completed pairs whose identifier has an image_data entry, in order.
Packaged ==
    SelectSeq(completed, LAMBDA pair : pair[1] \in DOMAIN image_data)

\* C15: the archive built with the completed-only filter has one entry for
\* each completed pair whose identifier is in image_data, in `completed`
\* order, named by the stored filename and holding the stored bytes; pairs
\* whose identifier is not in image_data are skipped.
C15_ArchiveEntries ==
    (archive.built /\ archive.completed_only)
    => /\ Len(archive.entries) = Len(Packaged)
       /\ \A k \in 1..Len(Packaged) :
            /\ archive.entries[k][1] = image_data[Packaged[k][1]].filename
            /\ archive.entries[k][2] = image_data[Packaged[k][1]].data

C15_Witness ==
    /\ archive.built
    /\ archive.completed_only
    /\ Len(completed) = 2
    /\ Len(archive.entries) = 1
    /\ completed[1][1] \notin DOMAIN image_data

\* The snapshot of a session that holds nothing.
EmptySnapshot ==
    Snapshot(<<>>, <<>>, <<>>, EmptyMeta, EmptyMap, EmptyMap, FALSE, 1)

\* C17: after "Start New Download" the extracted identifiers, completed,
\* failed, the position index, the retrieved images and the metadata are
\* empty, the started and paused flags are false and the step is 1; the state
\* that the action saves is this empty state.
C17_ResetEmpties ==
    [][StartNewDownload
       => /\ extracted_ids' = <<>>
          /\ completed' = <<>>
          /\ failed' = <<>>
          /\ id_position_map' = EmptyMap
          /\ image_data' = EmptyMap
          /\ metadata' = EmptyMeta
          /\ ~download_started'
          /\ ~download_paused'
          /\ current_step' = 1
          /\ (save_errors' = save_errors => persisted' = <<EmptySnapshot>>)]_vars

\* A session with completed and failed items, retrieved images and a saved
\* copy that holds them, in which "Start New Download" can be pressed.
C17_Witness ==
    /\ pc = "idle"
    /\ current_step = 3
    /\ download_started
    /\ download_paused
    /\ completed # <<>>
    /\ failed # <<>>
    /\ image_data # EmptyMap
    /\ Len(persisted) = 1
    /\ persisted[1].download_progress.image_data # EmptyMap
    /\ save_errors < MaxSaveErrors

\* The in-memory session state on the keys of state_to_save.
Memory ==
    Snapshot(extracted_ids, completed, failed, metadata, id_position_map,
             image_data, download_started, current_step)

\* C20: when an action that changes the session state (extraction, start of
\* the download, the record of an item's outcome, retry of the failed items,
\* reset) has finished and its save succeeded, the saved snapshot equals the
\* in-memory session state.
C20_SavedAfterMutation ==
    [][(/\ \/ handle_extract_ids_button
           \/ StartDownload
           \/ Record
           \/ retry_failed_downloads
           \/ StartNewDownload
        /\ Memory' # Memory
        /\ save_errors' = save_errors)
       => persisted' = <<Memory'>>]_vars

\* main step 1 shows its "Previous download session found" block only with
\* extracted identifiers and completed items at step 1.
NoPreviousSessionPrompt ==
    ~(current_step = 1 /\ extracted_ids # <<>> /\ completed # <<>>)

\* The pending list of the run under way or just over.
PendingAtStart == PendingIds(extracted_ids, start_completed)

\* C21: a run that has ended with the pause flag never set has called
\* download_image once for each element of its pending list, in order,
\* whichever of them failed.
C21_EveryPendingFetched ==
    (pc = "idle" /\ run_end \in {"complete", "raised"} /\ ~download_paused)
    => fetched = PendingAtStart

\* C22: when the save of an item's outcome fails and a later pending item
\* is left, the loop is ended: it is not at its top about to fetch that item.
C22_SaveFailureEndsLoop ==
    [][(Record /\ save_errors' = save_errors + 1 /\ i + 1 < Len(pending_ids))
       => ~(pc' = "loop" /\ ~download_paused' /\ i' < Len(pending_ids'))]_vars

\* C23: once the position index holds a mapping, only "Start New Download"
\* (or a new process) changes it.
C23_PositionIndexImmutable ==
    [][(id_position_map # EmptyMap /\ id_position_map' # id_position_map)
       => (StartNewDownload \/ Restart)]_vars

\* C26: the keys of the position index are the extracted identifiers, and
\* the identifier the loop is about to fetch, or is fetching, has an ordinal
\* in the index, which is the position handed to download_image.
C26_IndexCoversExtracted ==
    /\ DOMAIN id_position_map = Range(extracted_ids)
    /\ Range(pending_ids) \subseteq DOMAIN id_position_map
    /\ pc \in {"attempt", "record"}
       => position = id_position_map[pending_ids[i + 1]]

C26_Witness ==
    /\ pc = "attempt"
    /\ i = 0
    /\ position = 2
    /\ start_completed # <<>>

\* C27: two distinct identifiers never have the same ordinal in the position
\* index, never the same stored filename, and a file below the output
\* directory holds the image of one identifier for good.
C27_IndexInjective ==
    /\ [](\A a, b \in DOMAIN id_position_map :
            a # b => id_position_map[a] # id_position_map[b])
    /\ [](\A a, b \in DOMAIN image_data :
            a # b => image_data[a].filename # image_data[b].filename)
    /\ [][\A path \in DOMAIN files \cap DOMAIN files' :
            files'[path] = files[path]]_vars

C27_Witness ==
    /\ Cardinality(DOMAIN image_data) = 2
    /\ Cardinality(DOMAIN files) = 2
    /\ Len(extracted_ids) = 3
    /\ start_completed # <<>>

\* C28: a process start clears the pause flag whatever it was, the saved
\* session having no such key; when the loaded session is started, at step 3
\* and has pending identifiers, download_images runs its loop without
\* "Resume Downloads".
C28_PauseNotRestored ==
    [][(Restart /\ download_paused /\ Len(persisted) = 1)
       => /\ ~download_paused'
          /\ (/\ download_started'
              /\ current_step' = 3
              /\ Len(failed') + Len(PendingIds(extracted_ids', completed'))
                    <= MaxFailed)
             => CanRun'
          /\ extracted_ids' = persisted[1].extracted_ids
          /\ completed' = persisted[1].download_progress.completed]_vars

\* A paused session, saved as it is in memory, with a pending identifier:
\* the process start that loads it is the case of C28.
C28_Witness ==
    /\ pc = "idle"
    /\ download_paused
    /\ run_end = "paused"
    /\ Len(persisted) = 1
    /\ persisted[1] = Memory
    /\ download_started
    /\ current_step = 3
    /\ completed # <<>>
    /\ Len(PendingIds(extracted_ids, completed)) > 0

C30_FileNeverDeleted ==
    /\ [][Len(persisted) = 1 => Len(persisted') = 1]_vars
    /\ [][(StartNewDownload /\ Len(persisted) = 1 /\ save_errors' = save_errors)
          => persisted' = <<EmptySnapshot>>]_vars

\* After a reset: the file is there, with the empty session.
C30_Witness ==
    /\ pc = "idle"
    /\ current_step = 1
    /\ extracted_ids = <<>>
    /\ persisted = <<EmptySnapshot>>
    /\ save_errors = MaxSaveErrors

(***************************************************************************)
(* extract_ids_from_urls on JSON content: how the `urls` list is built.    *)
(***************************************************************************)
\* Most nodes (strings, numbers, lists, mappings) of a JSON document.
MaxNodes == 4

\* Strings that contain 'familysearch.org/ark:'.
ArkUrls == {"https://familysearch.org/ark:/61903/3:1:A",
            "https://familysearch.org/ark:/61903/3:1:B"}
\* A string that does not.
PlainText == "plain text"

\* JSON values, each with its Python type: str, int, list, dict (a dict as
\* the list of its items).
JStr(text) == <<"str", text>>
JNum == <<"int", "0">>
JList(items) == <<"list", items>>
JDict(items) == <<"dict", items>>

IsStr(v) == v[1] = "str"
IsList(v) == v[1] = "list"
IsDict(v) == v[1] = "dict"

\* 'familysearch.org/ark:' in v
IsArk(text) == text \in ArkUrls

\* The JSON values of exactly n nodes, with lists and mappings of at most two
\* members and keys other than 'urls'.
RECURSIVE JsonOfSize(_)
JsonOfSize(n) ==
    IF n = 1
    THEN {JStr(t) : t \in ArkUrls \cup {PlainText}}
         \cup {JNum, JList(<<>>), JDict(<<>>)}
    ELSE LET one == JsonOfSize(n - 1)
             two == UNION {JsonOfSize(a) \X JsonOfSize(n - 1 - a) :
                            a \in 1..(n - 2)}
         IN {JList(<<v>>) : v \in one}
            \cup {JDict(<< <<"k1", v>> >>) : v \in one}
            \cup {JList(<<p[1], p[2]>>) : p \in two}
            \cup {JDict(<< <<"k1", p[1]>>, <<"k2", p[2]>> >>) : p \in two}

JsonValues == UNION {JsonOfSize(n) : n \in 1..MaxNodes}

\* def extract_urls_from_dict(d), and its `for item in v` over a list value:
\* the strings appended to `urls`, in order.
RECURSIVE extract_urls_from_dict(_)
RECURSIVE UrlsOfListValue(_)
UrlsOfListValue(items) ==
    IF items = <<>> THEN <<>>
    ELSE LET item == Head(items)
             found == IF IsDict(item) THEN extract_urls_from_dict(item[2])
                      ELSE IF IsStr(item) /\ IsArk(item[2]) THEN <<item[2]>>
                      ELSE <<>>
         IN found \o UrlsOfListValue(Tail(items))

extract_urls_from_dict(d) ==
    IF d = <<>> THEN <<>>
    ELSE LET v == Head(d)[2]
             found == IF IsStr(v) /\ IsArk(v[2]) THEN <<v[2]>>
                      ELSE IF IsDict(v) THEN extract_urls_from_dict(v[2])
                      ELSE IF IsList(v) THEN UrlsOfListValue(v[2])
                      ELSE <<>>
         IN found \o extract_urls_from_dict(Tail(d))

\* elif isinstance(data, list): for item in data: if isinstance(item, dict)
RECURSIVE UrlsOfTopList(_)
UrlsOfTopList(items) ==
    IF items = <<>> THEN <<>>
    ELSE (IF IsDict(Head(items)) THEN extract_urls_from_dict(Head(items)[2])
          ELSE <<>>) \o UrlsOfTopList(Tail(items))

\* isinstance(data, list) and all(isinstance(item, str) for item in data)
AllStrings(data) ==
    IsList(data) /\ \A k \in 1..Len(data[2]) : IsStr(data[2][k])

\* The `urls` list that extract_ids_from_urls builds from parsed JSON without
\* a top-level 'urls' key.
JsonUrls(data) ==
    IF AllStrings(data) THEN [k \in 1..Len(data[2]) |-> data[2][k][2]]
    ELSE IF IsDict(data) THEN extract_urls_from_dict(data[2])
    ELSE IF IsList(data) THEN UrlsOfTopList(data[2])
    ELSE <<>>

\* extract_ids_from_urls up to its `urls` list, on the document at hand.
ParseJson ==
    /\ ~parsed.done
    /\ parsed' = [parsed EXCEPT !.done = TRUE, !.urls = JsonUrls(parsed.data)]
    /\ UNCHANGED <<session, drive, files, pc, locals, call, observed, archive,
                   peer>>

\* Every JSON document within the bound.
JsonInit ==
    /\ parsed \in [done : {FALSE}, data : JsonValues, urls : {<<>>}]
    /\ completed = <<>>
    /\ image_data = EmptyMap
    /\ current_step = 1
    /\ extracted_ids = <<>>
    /\ failed = <<>>
    /\ metadata = EmptyMeta
    /\ id_position_map = EmptyMap
    /\ download_started = FALSE
    /\ download_paused = FALSE
    /\ persisted = <<>>
    /\ save_errors = 0
    /\ files = EmptyMap
    /\ pc = "idle"
    /\ pending_ids = <<>>
    /\ i = 0
    /\ successful = <<>>
    /\ failed_local = <<>>
    /\ position = 0
    /\ attempt = 0
    /\ result = [success |-> FALSE, path |-> None]
    /\ gets = 0
    /\ sleeps = 0
    /\ outcomes = <<>>
    /\ fetched = <<>>
    /\ start_completed = <<>>
    /\ start_failed = <<>>
    /\ run_end = "none"
    /\ archive = NoArchive
    /\ peer = NoPeer

JsonNext == ParseJson

JsonSpec == JsonInit /\ [][JsonNext]_vars

\* The strings with the domain marker anywhere in a JSON value.
RECURSIVE ArkStrings(_)
ArkStrings(v) ==
    IF IsStr(v) THEN (IF IsArk(v[2]) THEN {v[2]} ELSE {})
    ELSE IF IsList(v) THEN UNION {ArkStrings(v[2][k]) : k \in 1..Len(v[2])}
    ELSE IF IsDict(v) THEN UNION {ArkStrings(v[2][k][2]) : k \in 1..Len(v[2])}
    ELSE {}

\* C24: from a mapping, or from a list that is not all strings, the `urls`
\* list holds every string with the domain marker, at any depth.
C24_WalkFindsEveryUrl ==
    (/\ parsed.done
     /\ IsDict(parsed.data) \/ (IsList(parsed.data) /\ ~AllStrings(parsed.data)))
    => ArkStrings(parsed.data) \subseteq Range(parsed.urls)

(***************************************************************************)
(* Two sessions on one Drive folder: the session of the model above and a  *)
(* second one, each with its own st.session_state, both saving under       *)
(* GDRIVE_SESSION_STATE_FILENAME.                                          *)
(***************************************************************************)
\* The second session starts: load_session_state restores the saved keys.
PeerOpen ==
    /\ ~peer.open
    /\ Len(persisted) = 1
    /\ peer' = [peer EXCEPT !.open = TRUE, !.mem = persisted[1]]
    /\ UNCHANGED <<session, drive, files, pc, locals, call, observed, archive,
                   parsed>>

\* download_images of the second session up to its loop.
PeerBegin ==
    /\ peer.open
    /\ ~peer.running
    /\ peer.mem.current_step = 3
    /\ peer.mem.download_started
    /\ LET pending == PendingIds(peer.mem.extracted_ids,
                                 peer.mem.download_progress.completed)
       IN /\ Len(pending) > 0
          /\ Len(peer.mem.download_progress.failed) + Len(pending) <= MaxFailed
          /\ peer' = [peer EXCEPT !.running = TRUE, !.pending_ids = pending,
                                  !.i = 0]
    /\ UNCHANGED <<session, drive, files, pc, locals, call, observed, archive,
                   parsed>>

\* One pass of the loop of the second session: download_image returns, the
\* outcome is recorded in that session's state and the state saved.
PeerItem ==
    /\ peer.running
    /\ peer.i < Len(peer.pending_ids)
    /\ \E ok \in BOOLEAN, saved \in SaveOutcomes :
        LET id == peer.pending_ids[peer.i + 1]
            progress == peer.mem.download_progress
            index == PositionOf(progress.id_position_map, id, peer.i)
            recorded ==
                IF ok
                THEN [progress EXCEPT
                        !.completed = RecordCompleted(@, id,
                                        new_path(progress.metadata, index)),
                        !.image_data = StoreImage(@, id,
                                        new_filename(progress.metadata, index),
                                        Content(id))]
                ELSE [progress EXCEPT !.failed = RecordFailed(@, id)]
            mem == [peer.mem EXCEPT !.download_progress = recorded]
        IN /\ peer' = [peer EXCEPT !.mem = mem, !.i = @ + 1]
           /\ save_session_state(saved, mem)
    /\ UNCHANGED <<session, files, pc, locals, call, observed, archive, parsed>>

\* The loop of the second session is over.
PeerEnd ==
    /\ peer.running
    /\ peer.i >= Len(peer.pending_ids)
    /\ peer' = [peer EXCEPT !.running = FALSE, !.pending_ids = <<>>, !.i = 0]
    /\ UNCHANGED <<session, drive, files, pc, locals, call, observed, archive,
                   parsed>>

\* Extracted lists without a repeated identifier.
DistinctIds ==
    {ids \in SeqsUpTo(Ids, MaxIds) :
        ids # <<>> /\ \A j, k \in 1..Len(ids) : j # k => ids[j] # ids[k]}

\* The first session at step 3 with its download started and saved, no run
\* under way and nothing fetched yet; the second session not yet open.
RaceInit ==
    /\ extracted_ids \in DistinctIds
    /\ completed = <<>>
    /\ failed = <<>>
    /\ metadata \in Metas
    /\ id_position_map = create_id_position_mapping(extracted_ids)
    /\ image_data = EmptyMap
    /\ download_started = TRUE
    /\ download_paused = FALSE
    /\ current_step = 3
    /\ persisted = <<Snapshot(extracted_ids, completed, failed, metadata,
                              id_position_map, image_data, download_started,
                              current_step)>>
    /\ save_errors = 0
    /\ files = EmptyMap
    /\ pc = "idle"
    /\ pending_ids = <<>>
    /\ i = 0
    /\ successful = <<>>
    /\ failed_local = <<>>
    /\ position = 0
    /\ attempt = 0
    /\ result = [success |-> FALSE, path |-> None]
    /\ gets = 0
    /\ sleeps = 0
    /\ outcomes = <<>>
    /\ fetched = <<>>
    /\ start_completed = <<>>
    /\ start_failed = <<>>
    /\ run_end = "none"
    /\ archive = NoArchive
    /\ parsed = NoParsed
    /\ peer = NoPeer

RaceNext ==
    \/ download_images_begin
    \/ LoopTop
    \/ Attempt
    \/ Record
    \/ PeerOpen
    \/ PeerBegin
    \/ PeerItem
    \/ PeerEnd

RaceSpec == RaceInit /\ [][RaceNext]_vars

\* An outcome that the first session has recorded is missing from the file:
\* a completed pair whose identifier the saved progress record has neither
\* in `completed` nor in `failed`.
OutcomeLost ==
    /\ Len(persisted) = 1
    /\ \E pair \in Range(completed) :
        /\ pair[1] \notin CompletedIds(persisted[1].download_progress.completed)
        /\ pair[1] \notin Range(persisted[1].download_progress.failed)

\* C25: each save puts the whole state of the saving session in the one
\* file, and while every save has succeeded the first session alone loses
\* none of its outcomes at an item boundary; with the second session's saves
\* in between, the state of C25_Witness is reached.
C25_WholeStateOverwrites ==
    /\ [][persisted' # persisted
          => \/ persisted' = <<Memory'>>
             \/ (peer'.open /\ persisted' = <<peer'.mem>>)]_vars
    /\ []((~peer.open /\ save_errors = 0 /\ ItemBoundary) => ~OutcomeLost)

\* Every save so far has succeeded, the first session is at an item boundary
\* with an outcome recorded and saved, and the file lacks it: the second
\* session has saved its own state over it.
C25_Witness ==
    /\ ItemBoundary
    /\ save_errors = 0
    /\ peer.open
    /\ OutcomeLost

====
